---- MODULE Spec2Model ----
(***************************************************************************)
(* Model of vader-data-stream: the time-bucketed TimeSeriesStore           *)
(* (src/store/TimeSeriesStore.ts) and the S3Ingester that feeds it         *)
(* (src/ingestion/S3Ingester.ts).                                          *)
(*                                                                         *)
(* A TradeEntry is a record [timestamp, side, source]; price and size are  *)
(* carried by the program but read by no code of the store or ingester,    *)
(* so they are left out.  Array indexes are 0-based as in the source; the  *)
(* element at index i of a sequence s is s[i + 1].                         *)
(***************************************************************************)
EXTENDS Integers, Sequences, FiniteSets, TLC

\* TimeSeriesStore.ts:13
BUCKET_SIZE_MS == 60000

\* ------------------------------------------------------------------ bounds
\* The store never holds more than MaxEntries entries in a checked run.
MaxEntries == 3
\* The longest array handed to insertBatch by a direct caller.
MaxBatch == 2

\* The entries that are inserted: three timestamps in bucket 0, the first instant
\* of bucket 1 and the first instant of bucket 2; two of the timestamps come with
\* a second (side, source) pair, so that equal timestamps can be told apart and
\* each filter of a range query both keeps and drops entries.
Timestamps == {0, 20000, 40000, 60000, 120000}
Entries ==
  {[timestamp |-> t, side |-> "buy", source |-> "s1"] : t \in Timestamps}
  \cup {[timestamp |-> 0, side |-> "sell", source |-> "s1"],
        [timestamp |-> 20000, side |-> "sell", source |-> "s2"]}
\* Arrays handed to insertBatch by a direct caller.
Batches == UNION {[1..n -> Entries] : n \in 0..MaxBatch}

\* The longest array a parsed body holds in the runs of the loader.
MaxRows == 3
\* The calls of loadInitialData and startWatching made in a checked run: each
\* starts one asynchronous task.
MaxTasks == 2
\* insertBatch is called at most MaxInserts times with the rows of one key.
MaxInserts == 2
\* The subscriptions made on the store in a checked run, on both topics and
\* counting the cancelled ones.
MaxListeners == 2

\* What the callbacks registered in a checked run do with an event: "log" only
\* takes it, "throw" takes it and throws, "reinsert" takes it and, unless the
\* entry is Echo, calls store.insert(Echo) before it returns.
Callbacks == {"log", "throw", "reinsert"}
BatchCallbacks == {"log", "throw"}
Echo == [timestamp |-> 20000, side |-> "sell", source |-> "s2"]
\* The entries and arrays inserted in the runs that have subscribers.
NotifiedEntries == {[timestamp |-> 0, side |-> "buy", source |-> "s1"], Echo}
NotifiedBatches == {<< >>, <<Echo, [timestamp |-> 0, side |-> "buy", source |-> "s1"]>>}

\* Arguments of the queries.
QueryTimes == {0, 20000, 40000, 80000, 120000}
Tolerances == {0, 60000, 120000}
RangeStarts == {0, 20000}
RangeEnds == {20000, 40000, 120001}
\* "" stands for a filter that is not set (undefined and '' are both falsy).
Filters == {<<"", "">>, <<"s1", "">>, <<"", "sell">>, <<"s1", "sell">>}
\* << >> is a limit that is not set (undefined), <<n>> the number n.
Limits == {<< >>, <<0>>, <<1>>}

\* ------------------------------------------------------------------- state
VARIABLES
  buckets,        \* TimeSeriesStore.buckets: Map<number, TradeEntry[]>
  totalCount,     \* TimeSeriesStore.totalCount
  minTimestamp,   \* TimeSeriesStore.minTimestamp: << >> is null, <<t>> is t
  maxTimestamp,   \* TimeSeriesStore.maxTimestamp: << >> is null, <<t>> is t
  inserted,       \* history: the entries inserted since the last clear, in call order
  lastQuery,      \* the query that has just returned, with its result, or NoQuery
  lastCall,       \* the insert, insertBatch or clear that has just ended, or NoCall
  entryListeners, \* the listeners of the store's 'entry' event, in registration order
  handles,        \* the cancellation handles subscribe and subscribeBatch returned
  batchListeners, \* the listeners of the store's 'batch' event, in registration order
  processedKeys,  \* S3Ingester.processedKeys: Set<string>
  pollingTimer,   \* S3Ingester.pollingTimer: << >> is null, <<t>> the timer of task t
  isPolling,      \* S3Ingester.isPolling
  sqsConfigured,  \* config.sqsQueueUrl is set (and so sqsClient is not null)
  lastLoad,       \* the loadFile call on a parsed body that has just ended, or NoLoad
  listing,        \* the pages ListObjectsV2 answers with, the last without a token
  tasks,          \* the asynchronous calls of the ingester, each at its await
  insertCount     \* history: per key, the insertBatch calls made with its rows

ingestVars == <<batchListeners, processedKeys, pollingTimer, isPolling, sqsConfigured,
                lastLoad, listing, tasks, insertCount>>
listenVars == <<entryListeners, handles>>
vars == <<buckets, totalCount, minTimestamp, maxTimestamp, inserted, lastQuery,
          lastCall, entryListeners, handles, batchListeners, processedKeys,
          pollingTimer, isPolling, sqsConfigured, lastLoad, listing, tasks, insertCount>>

\* --------------------------------------------------------- store: helpers
\* getBucketKey: Math.floor(timestamp / BUCKET_SIZE_MS)
getBucketKey(timestamp) == timestamp \div BUCKET_SIZE_MS

\* Map.get: the bucket, or << >> where the source sees undefined; has(b, k)
\* tells the two apart.
has(b, k) == k \in DOMAIN b
get(b, k) == IF has(b, k) THEN b[k] ELSE << >>
\* Map.set
set(b, k, v) == [x \in (DOMAIN b) \cup {k} |-> IF x = k THEN v ELSE b[x]]

\* Array.prototype.splice(index, 0, entry)
splice(bucket, index, entry) ==
  SubSeq(bucket, 1, index) \o <<entry>> \o SubSeq(bucket, index + 1, Len(bucket))

RECURSIVE findInsertIndexLoop(_, _, _, _)
findInsertIndexLoop(bucket, timestamp, low, high) ==
  IF low < high
  THEN LET mid == (low + high) \div 2
       IN IF bucket[mid + 1].timestamp < timestamp
          THEN findInsertIndexLoop(bucket, timestamp, mid + 1, high)
          ELSE findInsertIndexLoop(bucket, timestamp, low, mid)
  ELSE low

\* findInsertIndex: binary search for the insertion index
findInsertIndex(bucket, entry) ==
  findInsertIndexLoop(bucket, entry.timestamp, 0, Len(bucket))

RECURSIVE findIndexAtTimeLoop(_, _, _, _)
findIndexAtTimeLoop(bucket, timestamp, low, high) ==
  IF low <= high
  THEN LET mid == (low + high) \div 2
       IN IF bucket[mid + 1].timestamp = timestamp
          THEN mid
          ELSE IF bucket[mid + 1].timestamp < timestamp
               THEN findIndexAtTimeLoop(bucket, timestamp, mid + 1, high)
               ELSE findIndexAtTimeLoop(bucket, timestamp, low, mid - 1)
  ELSE -1

\* findIndexAtTime: binary search for an index holding the timestamp, or -1
findIndexAtTime(bucket, timestamp) ==
  findIndexAtTimeLoop(bucket, timestamp, 0, Len(bucket) - 1)

RECURSIVE findFirstAtOrAfterLoop(_, _, _, _)
findFirstAtOrAfterLoop(bucket, timestamp, low, high) ==
  IF low < high
  THEN LET mid == (low + high) \div 2
       IN IF bucket[mid + 1].timestamp < timestamp
          THEN findFirstAtOrAfterLoop(bucket, timestamp, mid + 1, high)
          ELSE findFirstAtOrAfterLoop(bucket, timestamp, low, mid)
  ELSE low

\* findFirstAtOrAfter: binary search for the first entry >= timestamp
findFirstAtOrAfter(bucket, timestamp) ==
  findFirstAtOrAfterLoop(bucket, timestamp, 0, Len(bucket))

\* The store's four fields as one value, for the operators below.
Store == [buckets |-> buckets, totalCount |-> totalCount,
          minTimestamp |-> minTimestamp, maxTimestamp |-> maxTimestamp]

\* The minimum is set by the first entry and never lowered.
updateMinOnlyFirst(cur, timestamp) == IF cur = << >> THEN <<timestamp>> ELSE cur

\* The min/max update shared by insert (119-124) and insertBatch (151-156).
updateMin(cur, timestamp) ==
  IF cur = << >> \/ timestamp < cur[1] THEN <<timestamp>> ELSE cur
updateMax(cur, timestamp) ==
  IF cur = << >> \/ timestamp > cur[1] THEN <<timestamp>> ELSE cur

\* ---------------------------------------------------------- store: writes
\* insert(entry), up to the emit
insert(st, entry) ==
  LET bucketKey == getBucketKey(entry.timestamp)
      bucket == get(st.buckets, bucketKey)
      insertIndex == findInsertIndex(bucket, entry)
  IN [buckets |-> set(st.buckets, bucketKey, splice(bucket, insertIndex, entry)),
      totalCount |-> st.totalCount + 1,
      minTimestamp |-> updateMin(st.minTimestamp, entry.timestamp),
      maxTimestamp |-> updateMax(st.maxTimestamp, entry.timestamp)]

\* The step of an unstable sort: e goes before the elements that compare equal.
RECURSIVE sortedInsertBeforeEqual(_, _)
sortedInsertBeforeEqual(sorted, e) ==
  IF sorted = << >> THEN <<e>>
  ELSE IF Head(sorted).timestamp - e.timestamp >= 0
       THEN <<e>> \o sorted
       ELSE <<Head(sorted)>> \o sortedInsertBeforeEqual(Tail(sorted), e)

\* One step of Array.prototype.sort's stable merge with the comparator
\* (a, b) => a.timestamp - b.timestamp: e goes behind every element that does
\* not compare greater.
RECURSIVE sortedInsert(_, _)
sortedInsert(sorted, e) ==
  IF sorted = << >> THEN <<e>>
  ELSE IF Head(sorted).timestamp - e.timestamp > 0
       THEN <<e>> \o sorted
       ELSE <<Head(sorted)>> \o sortedInsert(Tail(sorted), e)

\* [...entries].sort((a, b) => a.timestamp - b.timestamp): stable
RECURSIVE sortByTimestamp(_)
sortByTimestamp(entries) ==
  IF entries = << >> THEN << >>
  ELSE sortedInsert(sortByTimestamp(SubSeq(entries, 1, Len(entries) - 1)),
                    entries[Len(entries)])

\* The loop body with the count left as it was.
pushEntryUncounted(st, entry) ==
  [st EXCEPT !.buckets = set(st.buckets, getBucketKey(entry.timestamp),
                             Append(get(st.buckets, getBucketKey(entry.timestamp)),
                                    entry))]

\* The body of insertBatch's for loop: the entry is pushed at the tail.
pushEntry(st, entry) ==
  LET bucketKey == getBucketKey(entry.timestamp)
      bucket == get(st.buckets, bucketKey)
  IN [buckets |-> set(st.buckets, bucketKey, Append(bucket, entry)),
      totalCount |-> st.totalCount + 1,
      minTimestamp |-> updateMin(st.minTimestamp, entry.timestamp),
      maxTimestamp |-> updateMax(st.maxTimestamp, entry.timestamp)]

RECURSIVE insertBatchLoop(_, _)
insertBatchLoop(st, sorted) ==
  IF sorted = << >> THEN st
  ELSE insertBatchLoop(pushEntry(st, Head(sorted)), Tail(sorted))

\* insertBatch(entries), up to the emit
insertBatch(st, entries) == insertBatchLoop(st, sortByTimestamp(entries))

\* ------------------------------------------------------ store: subscribers
\* A call of insert or insertBatch in progress: the store, the inserts made so
\* far in call order (the call itself and those its listeners made), the
\* deliveries made so far, and whether an exception is on its way out.
Call(st) == [st |-> st, calls |-> << >>, deliveries |-> << >>, threw |-> FALSE]

\* The event of the 'entry' topic carries the entry, that of the 'batch' topic
\* the sorted array; both are written as sequences of entries.
delivered(w, topic, callback, event) ==
  [w EXCEPT !.deliveries =
     Append(@, [topic |-> topic, callback |-> callback, event |-> event])]

called(w, st, topic, event) ==
  [w EXCEPT !.st = st, !.calls = Append(@, [topic |-> topic, event |-> event])]

\* this.emit('entry', entry): EventEmitter calls the listeners registered at
\* the time of the emit synchronously, in registration order, from index i
\* on; an exception of a listener leaves emit and the remaining listeners are
\* not called.  insertCall is insert(entry) as a whole, called by a user or
\* by a listener.
RECURSIVE emitEntry(_, _, _, _)
RECURSIVE insertCall(_, _, _)
emitEntry(w, listeners, i, entry) ==
  IF i >= Len(listeners) THEN w
  ELSE LET callback == listeners[i + 1]
           w1 == delivered(w, "entry", callback, <<entry>>)
       IN IF callback = "throw" THEN [w1 EXCEPT !.threw = TRUE]
          ELSE IF callback = "reinsert" /\ entry # Echo
               THEN LET w2 == insertCall(w1, listeners, Echo)
                    IN IF w2.threw THEN w2
                       ELSE emitEntry(w2, listeners, i + 1, entry)
               ELSE emitEntry(w1, listeners, i + 1, entry)

insertCall(w, listeners, entry) ==
  emitEntry(called(w, insert(w.st, entry), "entry", <<entry>>), listeners, 0, entry)

\* this.emit('batch', sorted)
RECURSIVE emitBatch(_, _, _, _)
emitBatch(w, listeners, i, sorted) ==
  IF i >= Len(listeners) THEN w
  ELSE LET callback == listeners[i + 1]
           w1 == delivered(w, "batch", callback, sorted)
       IN IF callback = "throw" THEN [w1 EXCEPT !.threw = TRUE]
          ELSE emitBatch(w1, listeners, i + 1, sorted)

\* insertBatch(entries) as a whole
insertBatchCall(w, listeners, entries) ==
  emitBatch(called(w, insertBatch(w.st, entries), "batch", sortByTimestamp(entries)),
            listeners, 0, sortByTimestamp(entries))

\* this.off(event, callback): EventEmitter.removeListener looks from the end
\* of the listener array, from index i down, and removes the first listener
\* it finds that is the callback; without one the array stays as it is.
RECURSIVE offLoop(_, _, _)
offLoop(listeners, callback, i) ==
  IF i < 0 THEN listeners
  ELSE IF listeners[i + 1] = callback
       THEN SubSeq(listeners, 1, i) \o SubSeq(listeners, i + 2, Len(listeners))
       ELSE offLoop(listeners, callback, i - 1)

\* off with the removal forgotten: the listener array stays as it is.
offKeepsListener(listeners, callback) == listeners

off(listeners, callback) == offLoop(listeners, callback, Len(listeners) - 1)

\* The entries the calls put into the store, in the order they went in.
RECURSIVE entriesOf(_)
entriesOf(calls) ==
  IF calls = << >> THEN << >> ELSE Head(calls).event \o entriesOf(Tail(calls))

\* ----------------------------------------------------------- store: reads
\* The inner for loop of getByTimeRange over one bucket from index i; full
\* tells that the limit was reached and the function returned.
RECURSIVE scanBucket(_, _, _, _)
scanBucket(bucket, i, q, results) ==
  IF i >= Len(bucket) THEN [results |-> results, full |-> FALSE]
  ELSE LET entry == bucket[i + 1]
       IN IF entry.timestamp >= q.end
          THEN [results |-> results, full |-> FALSE]
          ELSE IF q.source # "" /\ entry.source # q.source
               THEN scanBucket(bucket, i + 1, q, results)
               ELSE IF q.side # "" /\ entry.side # q.side
                    THEN scanBucket(bucket, i + 1, q, results)
                    ELSE LET r == Append(results, entry)
                         IN IF q.limit # << >> /\ q.limit[1] # 0 /\ Len(r) >= q.limit[1]
                            THEN [results |-> r, full |-> TRUE]
                            ELSE scanBucket(bucket, i + 1, q, r)

\* The outer for loop of getByTimeRange from bucketKey to endBucket.
RECURSIVE scanBuckets(_, _, _, _, _, _)
scanBuckets(b, bucketKey, startBucket, endBucket, q, results) ==
  IF bucketKey > endBucket THEN results
  ELSE IF ~has(b, bucketKey)
       THEN scanBuckets(b, bucketKey + 1, startBucket, endBucket, q, results)
       ELSE LET bucket == get(b, bucketKey)
                startIndex == IF bucketKey = startBucket
                              THEN findFirstAtOrAfter(bucket, q.start)
                              ELSE 0
                s == scanBucket(bucket, startIndex, q, results)
            IN IF s.full THEN s.results
               ELSE scanBuckets(b, bucketKey + 1, startBucket, endBucket, q, s.results)

\* getByTimeRange({start, end, source, side, limit})
getByTimeRange(b, q) ==
  LET startBucket == getBucketKey(q.start)
      endBucket == getBucketKey(q.end - 1)
  IN scanBuckets(b, startBucket, startBucket, endBucket, q, << >>)

\* The collecting loop of getAtTime from index i.
RECURSIVE collectAtTime(_, _, _)
collectAtTime(bucket, i, timestamp) ==
  IF i < Len(bucket) /\ bucket[i + 1].timestamp = timestamp
  THEN <<bucket[i + 1]>> \o collectAtTime(bucket, i + 1, timestamp)
  ELSE << >>

\* getAtTime(timestamp)
getAtTime(b, timestamp) ==
  LET bucketKey == getBucketKey(timestamp)
  IN IF ~has(b, bucketKey) THEN << >>
     ELSE LET bucket == get(b, bucketKey)
              startIndex == findIndexAtTime(bucket, timestamp)
          IN IF startIndex = -1 THEN << >>
             ELSE collectAtTime(bucket, startIndex, timestamp)

\* |x|
abs(x) == IF x < 0 THEN -x ELSE x

\* The first half of getNearest (237-264): the search in the bucket of the
\* timestamp.  << >> is null, <<e>> is the entry e.
nearestInBucket(bucket, timestamp, tolerance) ==
  IF Len(bucket) = 0 THEN << >>
  ELSE LET index == findFirstAtOrAfter(bucket, timestamp)
           afterEntry == IF index < Len(bucket) THEN <<bucket[index + 1]>> ELSE << >>
           beforeEntry == IF index > 0 THEN <<bucket[index]>> ELSE << >>
           afterOk == afterEntry # << >>
                      /\ abs(afterEntry[1].timestamp - timestamp) <= tolerance
           beforeOk == beforeEntry # << >>
                       /\ abs(beforeEntry[1].timestamp - timestamp) <= tolerance
       IN IF afterOk
          THEN IF beforeOk /\ abs(beforeEntry[1].timestamp - timestamp)
                              < abs(afterEntry[1].timestamp - timestamp)
               THEN beforeEntry
               ELSE afterEntry
          ELSE IF beforeOk THEN beforeEntry ELSE << >>

\* The two candidates of one adjacent bucket (279-284), in the order tried.
candidatesOf(adjBucket, timestamp) ==
  LET index == findFirstAtOrAfter(adjBucket, timestamp)
  IN (IF index < Len(adjBucket) THEN <<adjBucket[index + 1]>> ELSE << >>)
     \o (IF index > 0 THEN <<adjBucket[index]>> ELSE << >>)

\* The loop over the candidates (286-294): a candidate within the tolerance
\* replaces nearest only when strictly closer.  acc is [nearest, minDistance];
\* minDistance -1 stands for Infinity.
RECURSIVE pickNearest(_, _, _, _)
pickNearest(candidates, timestamp, tolerance, acc) ==
  IF candidates = << >> THEN acc
  ELSE LET candidate == Head(candidates)
           distance == abs(candidate.timestamp - timestamp)
       IN IF distance <= tolerance /\ (acc.minDistance = -1 \/ distance < acc.minDistance)
          THEN pickNearest(Tail(candidates), timestamp, tolerance,
                           [nearest |-> <<candidate>>, minDistance |-> distance])
          ELSE pickNearest(Tail(candidates), timestamp, tolerance, acc)

\* The second half of getNearest (266-297): buckets bucketKey - 1 and
\* bucketKey + 1, in that order.
nearestInAdjacent(b, bucketKey, timestamp, tolerance) ==
  LET before == get(b, bucketKey - 1)
      after == get(b, bucketKey + 1)
      candidates == (IF Len(before) = 0 THEN << >> ELSE candidatesOf(before, timestamp))
                    \o (IF Len(after) = 0 THEN << >> ELSE candidatesOf(after, timestamp))
  IN pickNearest(candidates, timestamp, tolerance,
                 [nearest |-> << >>, minDistance |-> -1]).nearest

\* getNearest(timestamp, tolerance)
getNearest(b, timestamp, tolerance) ==
  LET bucketKey == getBucketKey(timestamp)
      own == nearestInBucket(get(b, bucketKey), timestamp, tolerance)
  IN IF own # << >> THEN own
     ELSE nearestInAdjacent(b, bucketKey, timestamp, tolerance)

\* getStats(): estimatedMemoryBytes is totalCount * 100
getStats(st) ==
  [totalEntries |-> st.totalCount,
   bucketCount |-> Cardinality(DOMAIN st.buckets),
   earliestTimestamp |-> st.minTimestamp,
   latestTimestamp |-> st.maxTimestamp,
   estimatedMemoryBytes |-> st.totalCount * 100]

\* get size()
size(st) == st.totalCount

\* get isEmpty()
isEmpty(st) == st.totalCount = 0

\* ----------------------------------------------------------------- actions
NoQuery == [op |-> "none", a |-> 0, b |-> 0, source |-> "", side |-> "",
            limit |-> << >>, result |-> << >>]

NoCall == [op |-> "none", event |-> << >>, calls |-> << >>, deliveries |-> << >>,
           threw |-> FALSE]

\* The store is between two calls: its API is synchronous.
Idle == lastQuery = NoQuery /\ lastCall = NoCall

\* new TimeSeriesStore()
InitStore ==
  /\ buckets = << >>
  /\ totalCount = 0
  /\ minTimestamp = << >>
  /\ maxTimestamp = << >>
  /\ inserted = << >>
  /\ lastQuery = NoQuery
  /\ lastCall = NoCall
  /\ entryListeners = << >>
  /\ batchListeners = << >>
  /\ handles = << >>

SetStore(st) ==
  /\ buckets' = st.buckets
  /\ totalCount' = st.totalCount
  /\ minTimestamp' = st.minTimestamp
  /\ maxTimestamp' = st.maxTimestamp

\* store.insert(entry), with the calls its listeners make, until it returns
\* or throws
InsertOf(entry) ==
  LET w == insertCall(Call(Store), entryListeners, entry)
  IN /\ Idle
     /\ totalCount + 1 <= MaxEntries
     /\ SetStore(w.st)
     /\ inserted' = inserted \o entriesOf(w.calls)
     /\ lastCall' = [op |-> "insert", event |-> <<entry>>, calls |-> w.calls,
                     deliveries |-> w.deliveries, threw |-> w.threw]
     /\ UNCHANGED <<lastQuery, listenVars>>
     /\ UNCHANGED ingestVars

Insert == \E entry \in Entries : InsertOf(entry)

\* store.insertBatch(entries), until it returns or throws
InsertBatchOf(entries) ==
  LET w == insertBatchCall(Call(Store), batchListeners, entries)
  IN /\ Idle
     /\ totalCount + Len(entries) <= MaxEntries
     /\ SetStore(w.st)
     /\ inserted' = inserted \o entries
     /\ lastCall' = [op |-> "insertBatch", event |-> sortByTimestamp(entries),
                     calls |-> w.calls, deliveries |-> w.deliveries,
                     threw |-> w.threw]
     /\ UNCHANGED <<lastQuery, listenVars>>
     /\ UNCHANGED ingestVars

InsertBatch == \E entries \in Batches : InsertBatchOf(entries)

\* clear with the two timestamps left as they were.
ClearKeepsTimestamps ==
  /\ Idle
  /\ buckets' = << >>
  /\ totalCount' = 0
  /\ inserted' = << >>
  /\ lastCall' = [NoCall EXCEPT !.op = "clear", !.event = inserted]
  /\ UNCHANGED <<minTimestamp, maxTimestamp, lastQuery, listenVars>>
  /\ UNCHANGED ingestVars

\* A clear that also drops the listeners and the keys the ingester recorded.
ClearForgetsAll ==
  /\ Idle
  /\ buckets' = << >>
  /\ totalCount' = 0
  /\ minTimestamp' = << >>
  /\ maxTimestamp' = << >>
  /\ inserted' = << >>
  /\ lastCall' = [NoCall EXCEPT !.op = "clear", !.event = inserted]
  /\ entryListeners' = << >>
  /\ batchListeners' = << >>
  /\ processedKeys' = {}
  /\ UNCHANGED <<lastQuery, handles>>
  /\ UNCHANGED <<pollingTimer, isPolling, sqsConfigured, lastLoad, listing, tasks,
                 insertCount>>

\* store.clear(); the record of the call keeps the entries it dropped
Clear ==
  /\ Idle
  /\ buckets' = << >>
  /\ totalCount' = 0
  /\ minTimestamp' = << >>
  /\ maxTimestamp' = << >>
  /\ inserted' = << >>
  /\ lastCall' = [NoCall EXCEPT !.op = "clear", !.event = inserted]
  /\ UNCHANGED <<lastQuery, listenVars>>
  /\ UNCHANGED ingestVars

\* store.getByTimeRange(options)
GetByTimeRange ==
  \E start \in RangeStarts, end \in RangeEnds, f \in Filters, limit \in Limits :
    /\ Idle
    /\ lastQuery' = [op |-> "range", a |-> start, b |-> end, source |-> f[1],
                     side |-> f[2], limit |-> limit,
                     result |-> getByTimeRange(buckets,
                                  [start |-> start, end |-> end, source |-> f[1],
                                   side |-> f[2], limit |-> limit])]
    /\ UNCHANGED <<buckets, totalCount, minTimestamp, maxTimestamp, inserted, lastCall>>
    /\ UNCHANGED listenVars
    /\ UNCHANGED ingestVars

\* store.getAtTime(timestamp)
GetAtTime ==
  \E timestamp \in QueryTimes :
    /\ Idle
    /\ lastQuery' = [op |-> "at", a |-> timestamp, b |-> 0, source |-> "", side |-> "",
                     limit |-> << >>, result |-> getAtTime(buckets, timestamp)]
    /\ UNCHANGED <<buckets, totalCount, minTimestamp, maxTimestamp, inserted, lastCall>>
    /\ UNCHANGED listenVars
    /\ UNCHANGED ingestVars

\* store.getNearest(timestamp, tolerance)
GetNearest ==
  \E timestamp \in QueryTimes, tolerance \in Tolerances :
    /\ Idle
    /\ lastQuery' = [op |-> "nearest", a |-> timestamp, b |-> tolerance, source |-> "",
                     side |-> "", limit |-> << >>,
                     result |-> getNearest(buckets, timestamp, tolerance)]
    /\ UNCHANGED <<buckets, totalCount, minTimestamp, maxTimestamp, inserted, lastCall>>
    /\ UNCHANGED listenVars
    /\ UNCHANGED ingestVars

\* The caller takes the value a query returned, or has seen insert,
\* insertBatch or clear end; the store's API is synchronous, so every call
\* starts after the call before it has ended.
Return ==
  /\ ~ Idle
  /\ lastQuery' = NoQuery
  /\ lastCall' = NoCall
  /\ UNCHANGED <<buckets, totalCount, minTimestamp, maxTimestamp, inserted>>
  /\ UNCHANGED listenVars
  /\ UNCHANGED ingestVars

\* store.subscribe(callback): the handle it returns is the next of handles
Subscribe ==
  \E callback \in Callbacks :
    /\ Idle
    /\ Len(handles) < MaxListeners
    /\ entryListeners' = Append(entryListeners, callback)
    /\ handles' = Append(handles, [topic |-> "entry", callback |-> callback,
                                   cancelled |-> FALSE])
    /\ UNCHANGED <<buckets, totalCount, minTimestamp, maxTimestamp, inserted>>
    /\ UNCHANGED <<lastQuery, lastCall>>
    /\ UNCHANGED ingestVars

\* A handle returned by subscribe or subscribeBatch is invoked:
\* () => this.off(topic, callback)
Cancel ==
  \E h \in 1..Len(handles) :
    /\ Idle
    /\ IF handles[h].topic = "entry"
       THEN /\ entryListeners' = off(entryListeners, handles[h].callback)
            /\ UNCHANGED batchListeners
       ELSE /\ batchListeners' = off(batchListeners, handles[h].callback)
            /\ UNCHANGED entryListeners
    /\ handles' = [handles EXCEPT ![h].cancelled = TRUE]
    /\ UNCHANGED <<buckets, totalCount, minTimestamp, maxTimestamp, inserted>>
    /\ UNCHANGED <<lastQuery, lastCall>>
    /\ UNCHANGED <<processedKeys, pollingTimer, isPolling, sqsConfigured, lastLoad, listing, tasks,
                   insertCount>>


\* ------------------------------------------------ the object store and queue
\* ListObjectsV2 answers in pages; every page but the last carries a
\* continuation token.  The listing the watcher and the store's users see:
Listing == << <<"a.json", "notes.txt">>, <<"b.json">> >>
Keys == {"a.json", "notes.txt", "b.json"}
\* The listings a backfill can meet: that one, one with an empty page that
\* carries a token, one whose first page is empty, one whose first page has
\* no .json key, and the listing of an empty prefix (Contents is missing).
Listings ==
  {Listing,
   << <<"a.json">>, << >>, <<"b.json">> >>,
   << << >>, <<"a.json", "b.json">> >>,
   << <<"notes.txt">>, <<"b.json">> >>,
   << << >> >>}
\* key.endsWith('.json')
endsWithJson(key) == key \in {"a.json", "b.json"}

\* JSON values by their typeof.
Num(v) == [type |-> "number", value |-> v]
Str(v) == [type |-> "string", value |-> v]
Undefined == [type |-> "undefined"]
Row(timestamp, price, side, source) ==
  [timestamp |-> Num(timestamp), price |-> price, size |-> Num(1),
   side |-> Str(side), source |-> Str(source)]

\* The parsed body of each object: a.json is a single object, b.json an array
\* whose second element has no price.  The objects report the same trade, so
\* the rows of one key are told from those of the other by insertCount alone.
Payload(key) ==
  IF key = "a.json"
  THEN [isArray |-> FALSE, data |-> Row(20000, Num(100), "buy", "s1")]
  ELSE [isArray |-> TRUE,
        data |-> <<Row(20000, Num(100), "buy", "s1"),
                   Row(20000, Undefined, "buy", "s1"),
                   Row(20000, Num(100), "buy", "s1")>>]

\* The filter predicate of loadFile (116-124).
isValidEntry(entry) ==
  /\ entry.timestamp.type = "number"
  /\ entry.price.type = "number"
  /\ entry.size.type = "number"
  /\ entry.side.type = "string" /\ entry.side.value \in {"buy", "sell"}
  /\ entry.source.type = "string"

\* A validated element as the TradeEntry the store reads.
toEntry(row) ==
  [timestamp |-> row.timestamp.value, side |-> row.side.value, source |-> row.source.value]

RECURSIVE filterValid(_)
filterValid(rows) ==
  IF rows = << >> THEN << >>
  ELSE (IF isValidEntry(Head(rows)) THEN <<toEntry(Head(rows))>> ELSE << >>)
       \o filterValid(Tail(rows))

\* loadFile(key) once the object has arrived and parsed: Array.isArray(data) ?
\* data : [data], then the filter.
loadFile(key) ==
  LET data == Payload(key)
      entries == IF data.isArray THEN data.data ELSE <<data.data>>
  IN filterValid(entries)

\* JSON null; reading a property of null throws a TypeError.
Null == [type |-> "null"]

\* entry[name] as the filter reads it: undefined on a number and on an object
\* without the property.
prop(entry, name) ==
  IF "type" \in DOMAIN entry \/ name \notin DOMAIN entry THEN Undefined
  ELSE entry[name]

\* The filter predicate of loadFile (116-124) on an element that is not null.
keeps(entry) ==
  /\ prop(entry, "timestamp").type = "number"
  /\ prop(entry, "price").type = "number"
  /\ prop(entry, "size").type = "number"
  /\ prop(entry, "side").type = "string" /\ prop(entry, "side").value \in {"buy", "sell"}
  /\ prop(entry, "source").type = "string"

\* loadFile from the result of JSON.parse on (111-124).  data.isArray is
\* Array.isArray(data); data.elements is the array, or holds the root alone.
\* The filter throws as it reads entry.timestamp of a null element.
filterParsed(data) ==
  LET entries == IF data.isArray THEN data.elements ELSE <<data.elements[1]>>
  IN IF \E i \in 1..Len(entries) : entries[i] = Null
     THEN [threw |-> TRUE, entries |-> << >>]
     ELSE [threw |-> FALSE, entries |-> SelectSeq(entries, keeps)]

\* The elements of the parsed bodies handed to the loader: two valid rows, a
\* row without price, a row with a side that is neither buy nor sell, null
\* and a number.
Elements ==
  {Row(0, Num(100), "buy", "s1"), Row(20000, Num(100), "sell", "s2"),
   Row(20000, Undefined, "buy", "s1"), Row(20000, Num(100), "hold", "s1"),
   Null, Num(5)}
ParsedBodies ==
  {[isArray |-> FALSE, elements |-> <<e>>] : e \in Elements}
  \cup {[isArray |-> TRUE, elements |-> es] :
          es \in UNION {[1..n -> Elements] : n \in 0..MaxRows}}

\* The notification messages a receive can answer with: Records of object
\* keys, or a Body that JSON.parse rejects.
Message1 == [records |-> <<"a.json">>, receipt |-> "r1", parses |-> TRUE]
Message2 == [records |-> <<"notes.txt", "b.json">>, receipt |-> "r2", parses |-> TRUE]
Message3 == [records |-> << >>, receipt |-> "r3", parses |-> FALSE]
\* response.Messages of a ReceiveMessage call; << >> is a response without any.
SqsResponses == {<< >>, <<Message1>>, <<Message1, Message2>>, <<Message1, Message3>>}

\* ------------------------------------------------------- ingester: tasks
TaskIds == 1..MaxTasks
ZeroResult == [filesProcessed |-> 0, entriesLoaded |-> 0, errors |-> << >>]
\* A task is one asynchronous call chain of the ingester, stopped at an await:
\*   kind  "backfill" (loadInitialData), "poll" (startPolling.poll and the
\*         timers it sets), "sqs" (startSqsListener.pollSqs), "none" (unused)
\*   pc    the await it is at: "list", "get", "receive", "delete", "sleep",
\*         "timer" (a setTimeout(poll) is pending), "done", or "threw"
\*         (loadInitialData has left with the exception of a listing)
\*   page  the listing page it is in; idx the index (from 1) of the key in
\*         the page, or of the record in the message, whose object it loads
\*   msgs  the messages of the receive still to process, the first being
\*         the one in work
\*   result  the LoadResult of a backfill
NoTask == [kind |-> "none", pc |-> "done", page |-> 0, idx |-> 0, msgs |-> << >>,
           result |-> ZeroResult]

NoLoad == [op |-> "none", data |-> [isArray |-> TRUE, elements |-> << >>],
           threw |-> FALSE, entries |-> << >>]

\* new S3Ingester(store, config)
InitIngester ==
  /\ lastLoad = NoLoad
  /\ processedKeys = {}
  /\ pollingTimer = << >>
  /\ isPolling = FALSE
  /\ tasks = [t \in TaskIds |-> NoTask]
  /\ insertCount = [k \in Keys |-> 0]

\* A store and an ingester on it, without a queue configured.
Init ==
  /\ InitStore
  /\ InitIngester
  /\ sqsConfigured = FALSE
  /\ listing = Listing

\* The task a new call runs as.
FreeTask(t) == tasks[t].kind = "none" /\ \A u \in TaskIds : u < t => tasks[u].kind # "none"

\* Whether this delivery of the 'batch' event ends in an exception: emit calls
\* the listeners in turn and an exception of a listener leaves emit, and so
\* insertBatch.  It depends on the listeners alone, not on the entries.
EmitOutcomes == {emitBatch(Call(Store), batchListeners, 0, << >>).threw}

\* The index of the first key of the page at or behind index from that the
\* backfill loads (68-72): a key ending in .json; 0 if there is none.
nextBackfillKey(page, from) ==
  LET js == {j \in from..Len(listing[page]) : endsWithJson(listing[page][j])}
  IN IF js = {} THEN 0 ELSE CHOOSE j \in js : \A i \in js : j <= i

\* The backfill from index from of the page on, up to its next await: the
\* load of the next .json key, the next page's listing, or the return.
backfillFrom(task, page, from) ==
  LET j == nextBackfillKey(page, from)
  IN IF j # 0 THEN [task EXCEPT !.pc = "get", !.page = page, !.idx = j]
     ELSE IF page < Len(listing)
          THEN [task EXCEPT !.pc = "list", !.page = page + 1, !.idx = 0]
          ELSE [task EXCEPT !.pc = "done", !.idx = 0]

\* The index of the first key of the page at or behind index from that a poll
\* pass loads (235-236): a .json key not in processedKeys; 0 if there is none.
nextPollKey(page, from, processed) ==
  LET js == {j \in from..Len(listing[page]) :
               endsWithJson(listing[page][j]) /\ listing[page][j] \notin processed}
  IN IF js = {} THEN 0 ELSE CHOOSE j \in js : \A i \in js : j <= i

\* The poll pass from index from of the page on, up to its next await: the
\* load of a key, the next page's listing, or the setTimeout at its end.
pollFrom(task, page, from, processed) ==
  LET j == nextPollKey(page, from, processed)
  IN IF j # 0 THEN [task EXCEPT !.pc = "get", !.page = page, !.idx = j]
     ELSE IF page < Len(listing)
          THEN [task EXCEPT !.pc = "list", !.page = page + 1, !.idx = 0]
          ELSE [task EXCEPT !.pc = "timer", !.idx = 0]

\* The index of the first record of the message at or behind index from that
\* processSqsMessages loads (183-185); 0 if there is none.
nextRecord(message, from, processed) ==
  LET js == {j \in from..Len(message.records) :
               endsWithJson(message.records[j]) /\ message.records[j] \notin processed}
  IN IF js = {} THEN 0 ELSE CHOOSE j \in js : \A i \in js : j <= i

\* processSqsMessages from record from of the first message of the task on, up
\* to its next await: the load of a key or the delete of the message.
recordsFrom(task, from, processed) ==
  LET j == nextRecord(Head(task.msgs), from, processed)
  IN IF j # 0 THEN [task EXCEPT !.pc = "get", !.idx = j]
     ELSE [task EXCEPT !.pc = "delete", !.idx = 0]

\* The loop of pollSqs left for good, whatever isPolling is.
sqsLoopEnds(task, polling) == [task EXCEPT !.pc = "done", !.idx = 0, !.msgs = << >>]

\* The head of pollSqs's while loop (145-147): the next receive, or the end.
sqsLoopHead(task, polling) ==
  IF polling THEN [task EXCEPT !.pc = "receive", !.idx = 0, !.msgs = << >>]
  ELSE [task EXCEPT !.pc = "done", !.idx = 0, !.msgs = << >>]

\* The for loop of processSqsMessages from the first message of the task on
\* (174-207): a message whose Body does not parse ends in the outer catch
\* (204-206) and the loop takes the next; with no message left, back to the
\* loop head of pollSqs.
RECURSIVE messagesFrom(_, _, _)
messagesFrom(task, processed, polling) ==
  IF task.msgs = << >> THEN sqsLoopHead(task, polling)
  ELSE IF ~ Head(task.msgs).parses
       THEN messagesFrom([task EXCEPT !.msgs = Tail(@)], processed, polling)
       ELSE recordsFrom(task, 1, processed)

\* processSqsMessages behind the message in work: the next message, or back to
\* the loop head of pollSqs.
nextMessage(task, processed, polling) ==
  messagesFrom([task EXCEPT !.msgs = Tail(@)], processed, polling)

\* --------------------------------------------------- ingester: operations
\* The try block shared by the three loaders (75-77, 188-190, 239-241) once
\* loadFile has answered: store.insertBatch(entries) and, if that returned,
\* processedKeys.add(key).  ok is false when loadFile threw.
LoadAnswered(key, ok, threw) ==
  /\ ok => insertCount[key] < MaxInserts
  /\ IF ok
     THEN /\ SetStore(insertBatch(Store, loadFile(key)))
          /\ inserted' = inserted \o loadFile(key)
          /\ insertCount' = [insertCount EXCEPT ![key] = @ + 1]
          /\ processedKeys' = IF threw THEN processedKeys ELSE processedKeys \cup {key}
     ELSE /\ UNCHANGED <<buckets, totalCount, minTimestamp, maxTimestamp, inserted>>
          /\ UNCHANGED <<insertCount, processedKeys>>

\* store.subscribeBatch(callback)
SubscribeBatch ==
  \E callback \in BatchCallbacks :
    /\ Idle
    /\ Len(handles) < MaxListeners
    /\ batchListeners' = Append(batchListeners, callback)
    /\ handles' = Append(handles, [topic |-> "batch", callback |-> callback,
                                   cancelled |-> FALSE])
    /\ UNCHANGED <<buckets, totalCount, minTimestamp, maxTimestamp, inserted>>
    /\ UNCHANGED <<lastQuery, lastCall, entryListeners>>
    /\ UNCHANGED <<processedKeys, pollingTimer, isPolling, sqsConfigured, lastLoad, listing, tasks,
                   insertCount>>

\* ingester.loadInitialData(), up to its first await: the listing of page 1
LoadInitialData ==
  \E t \in TaskIds :
    /\ FreeTask(t)
    /\ tasks' = [tasks EXCEPT ![t] = [NoTask EXCEPT !.kind = "backfill", !.pc = "list",
                                                     !.page = 1]]
    /\ UNCHANGED <<buckets, totalCount, minTimestamp, maxTimestamp, inserted>>
    /\ UNCHANGED <<lastQuery, lastCall>>
    /\ UNCHANGED listenVars
    /\ UNCHANGED <<batchListeners, processedKeys, pollingTimer, isPolling, sqsConfigured,
                   lastLoad, listing,
                   insertCount>>

\* loadInitialData: the listing answers (56-66, then the for loop to its first
\* load).  A failed listing leaves loadInitialData as an exception.
BackfillListReturns ==
  \E t \in TaskIds, ok \in BOOLEAN :
    /\ tasks[t].kind = "backfill" /\ tasks[t].pc = "list"
    /\ tasks' = [tasks EXCEPT ![t] =
                   IF ~ok THEN [@ EXCEPT !.pc = "threw"]
                   ELSE IF Len(listing[@.page]) = 0 THEN [@ EXCEPT !.pc = "done"]
                   ELSE backfillFrom(@, @.page, 1)]
    /\ UNCHANGED <<buckets, totalCount, minTimestamp, maxTimestamp, inserted>>
    /\ UNCHANGED <<lastQuery, lastCall>>
    /\ UNCHANGED listenVars
    /\ UNCHANGED <<batchListeners, processedKeys, pollingTimer, isPolling, sqsConfigured,
                   lastLoad, listing,
                   insertCount>>

\* loadInitialData: loadFile answers (74-85), then on to the next await
BackfillGetReturns ==
  \E t \in TaskIds, ok \in BOOLEAN, threw \in EmitOutcomes :
    LET task == tasks[t]
        key == listing[task.page][task.idx]
        entries == loadFile(key)
        counted == IF ok /\ ~threw
                   THEN [task EXCEPT !.result.filesProcessed = @ + 1,
                                     !.result.entriesLoaded = @ + Len(entries)]
                   ELSE [task EXCEPT !.result.errors = Append(@, key)]
    IN /\ task.kind = "backfill" /\ task.pc = "get"
       /\ ok \/ ~threw
       /\ LoadAnswered(key, ok, threw)
       /\ tasks' = [tasks EXCEPT ![t] = backfillFrom(counted, task.page, task.idx + 1)]
       /\ UNCHANGED <<lastQuery, lastCall, listenVars>>
       /\ UNCHANGED <<batchListeners, pollingTimer, isPolling, sqsConfigured, lastLoad, listing>>

\* ingester.startWatching() (130-136): startSqsListener or startPolling, each
\* up to its first await
StartWatching ==
  \E t \in TaskIds :
    /\ FreeTask(t)
    /\ isPolling' = TRUE
    /\ tasks' = [tasks EXCEPT ![t] =
                   IF sqsConfigured
                   THEN [NoTask EXCEPT !.kind = "sqs", !.pc = "receive"]
                   ELSE [NoTask EXCEPT !.kind = "poll", !.pc = "list", !.page = 1]]
    /\ UNCHANGED <<buckets, totalCount, minTimestamp, maxTimestamp, inserted>>
    /\ UNCHANGED <<lastQuery, lastCall>>
    /\ UNCHANGED listenVars
    /\ UNCHANGED <<batchListeners, processedKeys, pollingTimer, sqsConfigured, lastLoad, listing,
                   insertCount>>

\* ingester.stopWatching() (264-270); clearTimeout of a timer that has fired
\* does nothing
StopWatching ==
  /\ isPolling' = FALSE
  /\ pollingTimer' = << >>
  /\ tasks' = [t \in TaskIds |->
                 IF pollingTimer = <<t>> /\ tasks[t].pc = "timer"
                 THEN [tasks[t] EXCEPT !.pc = "done"]
                 ELSE tasks[t]]
  /\ UNCHANGED <<buckets, totalCount, minTimestamp, maxTimestamp, inserted>>
  /\ UNCHANGED <<lastQuery, lastCall>>
  /\ UNCHANGED listenVars
  /\ UNCHANGED <<batchListeners, processedKeys, sqsConfigured, lastLoad, listing, insertCount>>

\* The end of a poll pass (254-255): pollingTimer = setTimeout(poll, interval)
TimerOf(t, task) == IF task.pc = "timer" THEN <<t>> ELSE pollingTimer

\* poll: the listing answers (225-236); a failed listing is caught (250-252)
\* and the pass ends
PollListReturns ==
  \E t \in TaskIds, ok \in BOOLEAN :
    LET task == tasks[t]
        next == IF ok THEN pollFrom(task, task.page, 1, processedKeys)
                ELSE [task EXCEPT !.pc = "timer", !.idx = 0]
    IN /\ task.kind = "poll" /\ task.pc = "list"
       /\ tasks' = [tasks EXCEPT ![t] = next]
       /\ pollingTimer' = TimerOf(t, next)
       /\ UNCHANGED <<buckets, totalCount, minTimestamp, maxTimestamp, inserted>>
       /\ UNCHANGED <<lastQuery, lastCall>>
       /\ UNCHANGED listenVars
       /\ UNCHANGED <<batchListeners, processedKeys, isPolling, sqsConfigured, lastLoad, listing,
                      insertCount>>

\* poll: loadFile answers (238-244), then on to the next await
PollGetReturns ==
  \E t \in TaskIds, ok \in BOOLEAN, threw \in EmitOutcomes :
    LET task == tasks[t]
        key == listing[task.page][task.idx]
        next == pollFrom(task, task.page, task.idx + 1, processedKeys')
    IN /\ task.kind = "poll" /\ task.pc = "get"
       /\ ok \/ ~threw
       /\ LoadAnswered(key, ok, threw)
       /\ tasks' = [tasks EXCEPT ![t] = next]
       /\ pollingTimer' = TimerOf(t, next)
       /\ UNCHANGED <<lastQuery, lastCall, listenVars>>
       /\ UNCHANGED <<batchListeners, isPolling, sqsConfigured, lastLoad, listing>>

\* The timer fires and poll() takes up its pass whatever isPolling is.
TimerFiresUnchecked ==
  \E t \in TaskIds :
    /\ tasks[t].kind = "poll" /\ tasks[t].pc = "timer"
    /\ tasks' = [tasks EXCEPT ![t] = [@ EXCEPT !.pc = "list", !.page = 1, !.idx = 0]]
    /\ UNCHANGED <<buckets, totalCount, minTimestamp, maxTimestamp, inserted>>
    /\ UNCHANGED <<lastQuery, lastCall>>
    /\ UNCHANGED listenVars
    /\ UNCHANGED <<batchListeners, processedKeys, pollingTimer, isPolling, sqsConfigured,
                   lastLoad, listing, insertCount>>

\* The timer set by a poll pass fires: poll() (218-231) up to its first await
TimerFires ==
  \E t \in TaskIds :
    /\ tasks[t].kind = "poll" /\ tasks[t].pc = "timer"
    /\ tasks' = [tasks EXCEPT ![t] =
                   IF isPolling THEN [@ EXCEPT !.pc = "list", !.page = 1, !.idx = 0]
                   ELSE [@ EXCEPT !.pc = "done"]]
    /\ UNCHANGED <<buckets, totalCount, minTimestamp, maxTimestamp, inserted>>
    /\ UNCHANGED <<lastQuery, lastCall>>
    /\ UNCHANGED listenVars
    /\ UNCHANGED <<batchListeners, processedKeys, pollingTimer, isPolling, sqsConfigured,
                   lastLoad, listing,
                   insertCount>>

\* pollSqs: the receive answers (147-162): no Messages, Messages to process,
\* or an exception and the 5 s sleep
SqsReceiveReturns ==
  \E t \in TaskIds, ok \in BOOLEAN, messages \in SqsResponses :
    LET task == tasks[t]
    IN /\ task.kind = "sqs" /\ task.pc = "receive"
       /\ ok \/ messages = << >>
       /\ tasks' = [tasks EXCEPT ![t] =
                      IF ~ok THEN [task EXCEPT !.pc = "sleep"]
                      ELSE messagesFrom([task EXCEPT !.msgs = messages], processedKeys,
                                        isPolling)]
       /\ UNCHANGED <<buckets, totalCount, minTimestamp, maxTimestamp, inserted>>
       /\ UNCHANGED <<lastQuery, lastCall>>
       /\ UNCHANGED listenVars
       /\ UNCHANGED <<batchListeners, processedKeys, pollingTimer, isPolling,
                      sqsConfigured, lastLoad, listing,
                      insertCount>>

\* processSqsMessages: loadFile answers (187-193), then on to the next await
SqsGetReturns ==
  \E t \in TaskIds, ok \in BOOLEAN, threw \in EmitOutcomes :
    LET task == tasks[t]
        key == Head(task.msgs).records[task.idx]
    IN /\ task.kind = "sqs" /\ task.pc = "get"
       /\ ok \/ ~threw
       /\ LoadAnswered(key, ok, threw)
       /\ tasks' = [tasks EXCEPT ![t] = recordsFrom(task, task.idx + 1, processedKeys')]
       /\ UNCHANGED <<lastQuery, lastCall, listenVars>>
       /\ UNCHANGED <<batchListeners, pollingTimer, isPolling, sqsConfigured, lastLoad, listing>>

\* processSqsMessages: the DeleteMessage answers (198-206); its failure is
\* caught and the next message is taken up
SqsDeleteReturns ==
  \E t \in TaskIds, ok \in BOOLEAN :
    /\ tasks[t].kind = "sqs" /\ tasks[t].pc = "delete"
    /\ tasks' = [tasks EXCEPT ![t] = nextMessage(@, processedKeys, isPolling)]
    /\ UNCHANGED <<buckets, totalCount, minTimestamp, maxTimestamp, inserted>>
    /\ UNCHANGED <<lastQuery, lastCall>>
    /\ UNCHANGED listenVars
    /\ UNCHANGED <<batchListeners, processedKeys, pollingTimer, isPolling, sqsConfigured,
                   lastLoad, listing,
                   insertCount>>

\* pollSqs: the 5 s sleep behind a failed receive ends (161), back to the
\* loop head
SqsSleepReturns ==
  \E t \in TaskIds :
    /\ tasks[t].kind = "sqs" /\ tasks[t].pc = "sleep"
    /\ tasks' = [tasks EXCEPT ![t] = sqsLoopHead(@, isPolling)]
    /\ UNCHANGED <<buckets, totalCount, minTimestamp, maxTimestamp, inserted>>
    /\ UNCHANGED <<lastQuery, lastCall>>
    /\ UNCHANGED listenVars
    /\ UNCHANGED <<batchListeners, processedKeys, pollingTimer, isPolling, sqsConfigured,
                   lastLoad, listing,
                   insertCount>>

Next ==
  \/ Insert
  \/ InsertBatch
  \/ Clear
  \/ GetByTimeRange
  \/ GetAtTime
  \/ GetNearest
  \/ Return

Spec == Init /\ [][Next]_vars

\* The ingester in polling mode (no queue configured), with the calls a user
\* of the ingester and of the store's batch topic can make.
NextPolling ==
  \/ SubscribeBatch
  \/ LoadInitialData
  \/ BackfillListReturns
  \/ BackfillGetReturns
  \/ StartWatching
  \/ StopWatching
  \/ PollListReturns
  \/ PollGetReturns
  \/ TimerFires

SpecPolling == Init /\ [][NextPolling]_vars

\* The ingester in event-driven mode: config.sqsQueueUrl is set.
InitSqs ==
  /\ InitStore
  /\ InitIngester
  /\ sqsConfigured = TRUE
  /\ listing = Listing

NextSqs ==
  \/ SubscribeBatch
  \/ LoadInitialData
  \/ BackfillListReturns
  \/ BackfillGetReturns
  \/ StartWatching
  \/ StopWatching
  \/ SqsReceiveReturns
  \/ SqsGetReturns
  \/ SqsDeleteReturns
  \/ SqsSleepReturns

SpecSqs == InitSqs /\ [][NextSqs]_vars

\* The backfill alone, on each of the listings, with the batch topic's
\* subscribers.
InitBackfill ==
  /\ InitStore
  /\ InitIngester
  /\ sqsConfigured = FALSE
  /\ listing \in Listings

NextBackfill ==
  \/ SubscribeBatch
  \/ LoadInitialData
  \/ BackfillListReturns
  \/ BackfillGetReturns

SpecBackfill == InitBackfill /\ [][NextBackfill]_vars

\* The watcher alone, in either mode: startWatching, stopWatching and the
\* answers to the calls of the poll chain or of the receive loop.
InitWatching ==
  /\ InitStore
  /\ InitIngester
  /\ sqsConfigured \in BOOLEAN
  /\ listing = Listing

NextWatching ==
  \/ StartWatching
  \/ StopWatching
  \/ PollListReturns
  \/ PollGetReturns
  \/ TimerFires
  \/ SqsReceiveReturns
  \/ SqsGetReturns
  \/ SqsDeleteReturns
  \/ SqsSleepReturns

SpecWatching == InitWatching /\ [][NextWatching]_vars

\* The receive loop awaits the answer of loadFile.
SqsGetPending == \E t \in TaskIds : tasks[t].kind = "sqs" /\ tasks[t].pc = "get"

\* A poll pass awaits the answer of loadFile.
PollGetPending == \E t \in TaskIds : tasks[t].kind = "poll" /\ tasks[t].pc = "get"

\* Every pending network call, sleep and timer of the watcher is answered in
\* the end: weak fairness of each answer.  That of the two answers of
\* loadFile is written out: each is enabled exactly when a load is pending,
\* since a load can always fail.
FairWatching ==
  /\ WF_vars(PollListReturns)
  /\ WF_vars(TimerFires)
  /\ ([]<>(~ PollGetPending) \/ []<><<PollGetReturns>>_vars)
  /\ WF_vars(SqsReceiveReturns)
  /\ WF_vars(SqsDeleteReturns)
  /\ WF_vars(SqsSleepReturns)
  /\ ([]<>(~ SqsGetPending) \/ []<><<SqsGetReturns>>_vars)

\* store.subscribeBatch(callback) by the one subscriber there is, before the
\* ingester is used.
SubscribeBatchFirst ==
  /\ batchListeners = << >>
  /\ \A t \in TaskIds : tasks[t].kind = "none"
  /\ SubscribeBatch

\* The watcher in either mode, with or without a subscriber of the batch
\* topic, where every pending call is answered in the end.
NextWatchingLive ==
  \/ SubscribeBatchFirst
  \/ NextWatching

SpecWatchingLive == InitWatching /\ [][NextWatchingLive]_vars /\ FairWatching

\* store.subscribe(callback) or store.subscribeBatch(callback) by the one
\* subscriber there is, before the ingester is used.
SubscribeFirst ==
  /\ handles = << >>
  /\ \A t \in TaskIds : tasks[t].kind = "none"
  /\ Subscribe \/ SubscribeBatch

\* ingester.startWatching() on an ingester that has not been used.
StartWatchingOnce ==
  /\ \A t \in TaskIds : tasks[t].kind = "none"
  /\ StartWatching

\* The watcher in either mode, started once, on a store that its user clears
\* once, with or without a subscriber of one of the topics.
NextClearing ==
  \/ SubscribeFirst
  \/ Clear
  \/ StartWatchingOnce
  \/ StopWatching
  \/ PollListReturns
  \/ PollGetReturns
  \/ TimerFires
  \/ SqsReceiveReturns
  \/ SqsGetReturns
  \/ SqsDeleteReturns
  \/ SqsSleepReturns

SpecClearing == InitWatching /\ [][NextClearing]_vars

\* The watcher in polling mode with the batch topic's subscribers, where
\* every pending listing, load and timer is answered in the end.
NextPollingWatcher ==
  \/ SubscribeBatch
  \/ StartWatching
  \/ StopWatching
  \/ PollListReturns
  \/ PollGetReturns
  \/ TimerFires

\* Weak fairness of the three answers.  That of PollGetReturns is written
\* out: the action is enabled exactly when a load is pending, since a load
\* can always fail.
FairPolling ==
  /\ WF_vars(PollListReturns)
  /\ WF_vars(TimerFires)
  /\ ([]<>(~ PollGetPending) \/ []<><<PollGetReturns>>_vars)

SpecPollingLive == Init /\ [][NextPollingWatcher]_vars /\ FairPolling

\* loadFile(key) once the body of the object has arrived and parsed
LoadFile ==
  \E data \in ParsedBodies :
    /\ lastLoad = NoLoad
    /\ lastLoad' = [op |-> "loadFile", data |-> data,
                    threw |-> filterParsed(data).threw,
                    entries |-> filterParsed(data).entries]
    /\ UNCHANGED <<buckets, totalCount, minTimestamp, maxTimestamp, inserted>>
    /\ UNCHANGED <<lastQuery, lastCall, listenVars>>
    /\ UNCHANGED <<batchListeners, processedKeys, pollingTimer, isPolling,
                   sqsConfigured, listing, tasks, insertCount>>

\* The caller of loadFile takes the entries, or catches the exception.
LoadReturns ==
  /\ lastLoad # NoLoad
  /\ lastLoad' = NoLoad
  /\ UNCHANGED <<buckets, totalCount, minTimestamp, maxTimestamp, inserted>>
  /\ UNCHANGED <<lastQuery, lastCall, listenVars>>
  /\ UNCHANGED <<batchListeners, processedKeys, pollingTimer, isPolling,
                 sqsConfigured, listing, tasks, insertCount>>

NextLoader ==
  \/ LoadFile
  \/ LoadReturns

\* The loader on the bodies it can be handed.
SpecLoader == Init /\ [][NextLoader]_vars

\* The store with subscribers on its two topics: the calls a user of the
\* subscription API can make, with few entries.
InsertNotified == \E entry \in NotifiedEntries : InsertOf(entry)

InsertBatchNotified == \E entries \in NotifiedBatches : InsertBatchOf(entries)

NextSubscribers ==
  \/ Subscribe
  \/ SubscribeBatch
  \/ Cancel
  \/ InsertNotified
  \/ InsertBatchNotified
  \/ Return

SpecSubscribers == Init /\ [][NextSubscribers]_vars

\* ----------------------------------------------------- what the claims say
\* The entries the store holds, as the callers handed them over.
Stored == {inserted[i] : i \in 1..Len(inserted)}

Count(seq, e) == Cardinality({i \in 1..Len(seq) : seq[i] = e})
\* The two sequences hold the same entries, each as often.
SameBag(s1, s2) ==
  /\ Len(s1) = Len(s2)
  /\ \A i \in 1..Len(s1) : Count(s1, s1[i]) = Count(s2, s1[i])

\* Every bucket is in non-decreasing timestamp order.
IsSorted(bucket) ==
  \A i \in 1..(Len(bucket) - 1) : bucket[i].timestamp <= bucket[i + 1].timestamp
AllBucketsSorted == \A k \in DOMAIN buckets : IsSorted(buckets[k])

\* C1: after any sequence of insert, insertBatch and clear calls the entries
\* of every bucket are in non-decreasing timestamp order; an insertBatch entry
\* that reaches a non-empty bucket lands at its sorted position.
C1_BucketsSorted == AllBucketsSorted

\* The entry is in the window of the range query q and passes the filters
\* that are set.
Matches(e, q) ==
  /\ q.a <= e.timestamp
  /\ e.timestamp < q.b
  /\ (q.source # "" => e.source = q.source)
  /\ (q.side # "" => e.side = q.side)

MatchesLastQuery(e) == Matches(e, lastQuery)

\* C2: a range query without limit returns exactly the stored entries with
\* start <= timestamp < end that pass the filters that are set: none is
\* left out, none is added.
C2_RangeExact ==
  (lastQuery.op = "range" /\ lastQuery.limit = << >>)
    => SameBag(lastQuery.result, SelectSeq(inserted, MatchesLastQuery))

\* The key whose object the task is loading (it is at the await of loadFile).
LoadingKey(task) ==
  IF task.kind = "sqs" THEN Head(task.msgs).records[task.idx]
  ELSE listing[task.page][task.idx]

\* C3: the entries parsed from a key are batch-inserted at most once, across
\* every interleaving of backfill, poll passes, notifications and
\* stopWatching/startWatching.  Stated for the runs in which no listener is
\* registered, so that no insertBatch ends in an exception.
C3_InsertedAtMostOnce ==
  batchListeners = << >> => \A k \in Keys : insertCount[k] <= 1

\* C4: once a key is in processedKeys, no step starts a load of its object:
\* a task that arrives at the await of loadFile loads a key that is not in
\* the set.
C4_NoLoadOnceProcessed ==
  [][\A t \in TaskIds :
       (tasks'[t].pc = "get" /\ tasks'[t] # tasks[t])
         => LoadingKey(tasks'[t]) \notin processedKeys]_vars

\* C5: a key is in processedKeys iff insertBatch was called with the valid
\* rows of its object, and the set never loses a key.
C5_ProcessedIffInserted ==
  [][/\ \A k \in Keys : (k \in processedKeys') <=> (insertCount'[k] > 0)
     /\ processedKeys \subseteq processedKeys']_vars

\* The entry has the timestamp the last query asked for.
AtLastQueryTime(e) == e.timestamp = lastQuery.a

\* The entries of seq that have the timestamp of e, in their order in seq.
TiesOf(seq, e) == LET SameTime(x) == x.timestamp = e.timestamp IN SelectSeq(seq, SameTime)

\* C6: entries with equal timestamps keep insertion order: insert(e) places
\* e behind the entries of its bucket that have e's timestamp, so that the
\* equal-timestamp entries of a bucket stand first-inserted first.
C6_TiesKeepInsertionOrder ==
  \A k \in DOMAIN buckets :
    \A i \in 1..Len(buckets[k]) :
      TiesOf(buckets[k], buckets[k][i]) = TiesOf(inserted, buckets[k][i])

\* C7: at(t) returns every stored entry whose timestamp equals t and no
\* other entry, however many entries share the timestamp.  Stated for the
\* states whose buckets are sorted, where the binary search is within its
\* precondition.
C7_AtReturnsAll ==
  (lastQuery.op = "at" /\ AllBucketsSorted)
    => SameBag(lastQuery.result, SelectSeq(inserted, AtLastQueryTime))

\* The distance of the entry from the timestamp the last query asked for.
Distance(e) == abs(e.timestamp - lastQuery.a)

\* C8: the entry nearest(t, tol) returns has the least distance |timestamp - t|
\* of all stored entries, whichever bucket they are in.  Stated for the states
\* whose buckets are sorted.
C8_NearestIsMinimal ==
  (lastQuery.op = "nearest" /\ AllBucketsSorted /\ lastQuery.result # << >>)
    => \A e \in Stored : Distance(lastQuery.result[1]) <= Distance(e)

\* C9: nearest(t, tol) returns an entry iff some stored entry is within tol of
\* t, and the entry returned is within tol.  Stated for the states whose
\* buckets are sorted.
C9_NearestIffWithinTolerance ==
  (lastQuery.op = "nearest" /\ AllBucketsSorted)
    => /\ (lastQuery.result # << >>) <=> (\E e \in Stored : Distance(e) <= lastQuery.b)
       /\ lastQuery.result # << >> => Distance(lastQuery.result[1]) <= lastQuery.b

\* The earlier entry a and the later entry b are the pair of candidates C10
\* is about: equally distant from t, and both in the bucket of t or a in the
\* bucket before it and b in the bucket behind it.
TiedPair(a, b, t) ==
  /\ a.timestamp < t
  /\ b.timestamp - t = t - a.timestamp
  /\ \/ /\ getBucketKey(a.timestamp) = getBucketKey(t)
        /\ getBucketKey(b.timestamp) = getBucketKey(t)
     \/ /\ getBucketKey(a.timestamp) = getBucketKey(t) - 1
        /\ getBucketKey(b.timestamp) = getBucketKey(t) + 1

\* C10: of two candidates equally distant from t, nearest returns the later
\* one, in the bucket of t and across the buckets k-1 and k+1 alike: it never
\* returns the earlier entry of such a pair.  Stated for the states whose
\* buckets are sorted.
C10_NearestTiePrefersLater ==
  (lastQuery.op = "nearest" /\ AllBucketsSorted /\ lastQuery.result # << >>)
    => ~ \E b \in Stored : TiedPair(lastQuery.result[1], b, lastQuery.a)

\* ------------------------------------------------------------ subscribers
\* An insert or insertBatch call has just ended, on the topic it emits on.
Mutated == lastCall.op \in {"insert", "insertBatch"}
TopicOfCall == IF lastCall.op = "insert" THEN "entry" ELSE "batch"
ListenersOf(topic) == IF topic = "entry" THEN entryListeners ELSE batchListeners

\* The subscriptions of the callback on the topic whose handle was never invoked.
ActiveCount(topic, callback) ==
  Cardinality({h \in 1..Len(handles) :
                 handles[h] = [topic |-> topic, callback |-> callback,
                               cancelled |-> FALSE]})

\* How often the call that has just ended handed the event to the callback.
Received(topic, callback, event) ==
  Count(lastCall.deliveries,
        [topic |-> topic, callback |-> callback, event |-> event])

\* C11: if a subscriber callback throws during the delivery of an entry or
\* batch event, every other registered subscriber of the topic still receives
\* the event, once for each of its registrations.
C11_ThrowDoesNotStopDelivery ==
  (Mutated /\ lastCall.threw)
    => \A callback \in Callbacks :
         Received(TopicOfCall, callback, lastCall.event)
           >= Count(ListenersOf(TopicOfCall), callback)

\* C12: an insert or insertBatch call returns normally to its caller also when
\* a subscriber callback throws.
C12_CallReturnsNormally == Mutated => ~ lastCall.threw

\* C13: insert(e) delivers e exactly once to every active entry subscription
\* and nothing on the batch topic; insertBatch delivers its batch exactly once
\* to every active batch subscription and nothing on the entry topic.
C13_ExactlyOncePerSubscription ==
  Mutated
    => /\ \A callback \in Callbacks :
            Received(TopicOfCall, callback, lastCall.event)
              = ActiveCount(TopicOfCall, callback)
       /\ \A i \in 1..Len(lastCall.deliveries) :
            lastCall.deliveries[i].topic = TopicOfCall

\* The events of the deliveries and of the calls of the call that just ended.
EventsOfCall == {lastCall.calls[k].event : k \in 1..Len(lastCall.calls)}
CallsWith(topic, event) == Count(lastCall.calls, [topic |-> topic, event |-> event])

\* C14: after a subscription's handle has been invoked, no event of a later
\* insert or insertBatch is delivered to it: a callback is handed each event
\* of a call at most once for each subscription of it whose handle was not
\* invoked, and so not at all when every handle of it was.
C14_NoDeliveryAfterCancel ==
  Mutated
    => \A topic \in {"entry", "batch"}, callback \in Callbacks, event \in EventsOfCall :
         Received(topic, callback, event)
           <= ActiveCount(topic, callback) * CallsWith(topic, event)

\* An insert was made while an entry subscription was cancelled and another
\* one received the entry.
C14_Witness ==
  /\ lastCall.op = "insert"
  /\ lastCall.deliveries # << >>
  /\ \E h \in 1..Len(handles) : handles[h].topic = "entry" /\ handles[h].cancelled

\* C15: cancellation is idempotent and cancels only its own subscription:
\* whatever handles were invoked and however often, a callback stays
\* registered once for each subscription of it whose handle was not invoked.
C15_CancelOnlyOwnSubscription ==
  \A topic \in {"entry", "batch"}, callback \in Callbacks :
    Count(ListenersOf(topic), callback) = ActiveCount(topic, callback)

\* The place of the first insert of the event among the calls made.
FirstCall(event) ==
  CHOOSE k \in 1..Len(lastCall.calls) :
    /\ lastCall.calls[k].event = event
    /\ \A j \in 1..(k - 1) : lastCall.calls[j].event # event

\* C16: a subscriber receives the entries in the order of the insert calls,
\* also when a subscriber callback itself calls insert: of two deliveries to
\* one callback the earlier is of the entry inserted first.
C16_DeliveryInCallOrder ==
  Mutated
    => \A i, j \in 1..Len(lastCall.deliveries) :
         (/\ i < j
          /\ lastCall.deliveries[i].callback = lastCall.deliveries[j].callback
          /\ lastCall.deliveries[i].topic = lastCall.deliveries[j].topic)
           => FirstCall(lastCall.deliveries[i].event)
                <= FirstCall(lastCall.deliveries[j].event)

\* ------------------------------------------------------------- aggregates
RECURSIVE SumLengths(_, _)
SumLengths(b, keys) ==
  IF keys = {} THEN 0
  ELSE LET k == CHOOSE x \in keys : TRUE
       IN Len(b[k]) + SumLengths(b, keys \ {k})

\* C17: in every state reached by insert, insertBatch and clear,
\* stats.totalEntries and size equal the sum of the lengths of the buckets,
\* which is the number of entries inserted since the last clear.
C17_CountIsSumOfBuckets ==
  /\ getStats(Store).totalEntries = SumLengths(buckets, DOMAIN buckets)
  /\ size(Store) = SumLengths(buckets, DOMAIN buckets)
  /\ SumLengths(buckets, DOMAIN buckets) = Len(inserted)

\* An insertBatch has just added to a store that holds entries in two buckets.
C17_Witness ==
  /\ lastCall.op = "insertBatch"
  /\ lastCall.event # << >>
  /\ Cardinality(DOMAIN buckets) >= 2
  /\ totalCount = MaxEntries

TimestampsStored == {e.timestamp : e \in Stored}

\* C18: earliest and latest are the least and the greatest timestamp of the
\* stored entries, and both are absent iff the store holds no entry.
C18_ExtremaOfStored ==
  LET stats == getStats(Store)
  IN IF Stored = {}
     THEN stats.earliestTimestamp = << >> /\ stats.latestTimestamp = << >>
     ELSE /\ stats.earliestTimestamp
               = <<CHOOSE t \in TimestampsStored : \A u \in TimestampsStored : t <= u>>
          /\ stats.latestTimestamp
               = <<CHOOSE t \in TimestampsStored : \A u \in TimestampsStored : t >= u>>

\* An entry was inserted below the earliest timestamp the store held: the
\* call before that insert left no entry as early as the one it added.
C18_Witness ==
  /\ lastCall.op = "insert"
  /\ Len(inserted) >= 2
  /\ \A i \in 1..(Len(inserted) - 1) :
       inserted[i].timestamp > lastCall.event[1].timestamp
  /\ maxTimestamp # minTimestamp

\* C19: after clear returns, from any prior state, size is 0, isEmpty is
\* true, earliest and latest are absent, bucketCount is 0 and every range,
\* at and nearest query returns nothing.
C19_ClearEmpties ==
  lastCall.op = "clear"
    => /\ size(Store) = 0
       /\ isEmpty(Store)
       /\ getStats(Store).earliestTimestamp = << >>
       /\ getStats(Store).latestTimestamp = << >>
       /\ getStats(Store).bucketCount = 0
       /\ \A start \in RangeStarts, end \in RangeEnds, f \in Filters, limit \in Limits :
            getByTimeRange(buckets, [start |-> start, end |-> end, source |-> f[1],
                                     side |-> f[2], limit |-> limit]) = << >>
       /\ \A timestamp \in QueryTimes : getAtTime(buckets, timestamp) = << >>
       /\ \A timestamp \in QueryTimes, tolerance \in Tolerances :
            getNearest(buckets, timestamp, tolerance) = << >>

\* clear has just dropped the entries of a full store.
C19_Witness == lastCall.op = "clear" /\ Len(lastCall.event) = MaxEntries

\* C20: the sequence a range query returns is in non-decreasing timestamp
\* order, within a bucket and across consecutive buckets.
C20_RangeAscending == lastQuery.op = "range" => IsSorted(lastQuery.result)

\* --------------------------------------------------------- limit and batch
\* The first n elements of the sequence, all of it if it is shorter.
FirstN(seq, n) == SubSeq(seq, 1, IF n < Len(seq) THEN n ELSE Len(seq))

\* The result of the last range query had it been made without a limit.
UnlimitedResult ==
  getByTimeRange(buckets, [start |-> lastQuery.a, end |-> lastQuery.b,
                           source |-> lastQuery.source, side |-> lastQuery.side,
                           limit |-> << >>])

\* C21: for every non-negative integer limit passed to a range query the
\* result has at most limit entries and is the first limit entries of the
\* same query without limit.
C21_LimitIsPrefix ==
  (lastQuery.op = "range" /\ lastQuery.limit # << >>)
    => /\ Len(lastQuery.result) <= lastQuery.limit[1]
       /\ lastQuery.result = FirstN(UnlimitedResult, lastQuery.limit[1])

\* The elements of the sequence that carry the timestamp, in their order.
AtTimestamp(seq, t) ==
  LET Test(e) == e.timestamp = t
  IN SelectSeq(seq, Test)

\* r is a permutation of s in non-decreasing timestamp order in which the
\* entries of equal timestamp keep the order they have in s.
StableSorted(r, s) ==
  /\ SameBag(r, s)
  /\ IsSorted(r)
  /\ \A i \in 1..Len(s) : AtTimestamp(r, s[i].timestamp) = AtTimestamp(s, s[i].timestamp)

\* insertBatch has just been called with a non-empty array on an empty store.
BatchOnEmptyStore ==
  /\ lastCall.op = "insertBatch"
  /\ lastCall.event # << >>
  /\ Len(inserted) = Len(lastCall.event)

\* C22: insertBatch(S) on an empty store followed by range(min_ts(S),
\* max_ts(S) + 1) without filters returns S sorted by timestamp with the
\* entries of equal timestamp in their order in S, and the batch event
\* carries that same sequence.
C22_BatchThenRangeIsStableSort ==
  BatchOnEmptyStore
    => /\ StableSorted(lastCall.event, inserted)
       /\ getByTimeRange(buckets, [start |-> minTimestamp[1], end |-> maxTimestamp[1] + 1,
                                   source |-> "", side |-> "", limit |-> << >>])
            = lastCall.event

\* The array handed to insertBatch on the empty store was not in timestamp order.
C22_Witness ==
  /\ BatchOnEmptyStore
  /\ Len(inserted) = MaxBatch
  /\ ~ IsSorted(inserted)

\* ---------------------------------------------------------------- ingester
\* The task takes a step from the await of loadFile in a backfill.
BackfillLoadEnds(t) ==
  tasks[t].kind = "backfill" /\ tasks[t].pc = "get" /\ tasks'[t] # tasks[t]

\* C23: the result of a backfill counts in filesProcessed the .json keys whose
\* load succeeded and in entriesLoaded their valid rows, and holds in errors
\* one record for each .json key whose load failed and no other; whatever the
\* outcome the backfill goes on, and a key that does not end in .json is
\* never loaded and never counted.
C23_BackfillResultCounts ==
  [][\A t \in TaskIds :
       BackfillLoadEnds(t)
         => LET key == LoadingKey(tasks[t])
                before == tasks[t].result
                after == tasks'[t].result
            IN /\ endsWithJson(key)
               /\ IF insertCount'[key] > insertCount[key]
                  THEN after = [filesProcessed |-> before.filesProcessed + 1,
                                entriesLoaded |-> before.entriesLoaded + Len(loadFile(key)),
                                errors |-> before.errors]
                  ELSE after = [before EXCEPT !.errors = Append(@, key)]]_vars

\* The task is in processSqsMessages with messages of a receive in hand and
\* takes a step.
SqsWorks(t) ==
  tasks[t].kind = "sqs" /\ tasks[t].msgs # << >> /\ tasks'[t] # tasks[t]

\* C24: in event-driven mode every received message is acknowledged exactly
\* once, only after all of its records have been processed, whether or not a
\* load failed: a message leaves the work of processSqsMessages only as its
\* DeleteMessage answers, one message at a time, and the DeleteMessage of a
\* message is sent only when none of its records is left to load.
C24_AcknowledgedOnceAfterRecords ==
  [][\A t \in TaskIds :
       SqsWorks(t)
         => /\ tasks'[t].msgs # tasks[t].msgs
                 => /\ tasks[t].pc = "delete"
                    /\ tasks'[t].msgs = Tail(tasks[t].msgs)
            /\ (tasks'[t].pc = "delete" /\ tasks[t].pc = "get")
                 => \A j \in (tasks[t].idx + 1)..Len(Head(tasks[t].msgs).records) :
                      \/ ~ endsWithJson(Head(tasks[t].msgs).records[j])
                      \/ Head(tasks[t].msgs).records[j] \in processedKeys']_vars

\* The poll passes in progress: the tasks of startPolling.poll at an await of
\* a listing or of a load.
PassesInProgress ==
  {t \in TaskIds : tasks[t].kind = "poll" /\ tasks[t].pc \in {"list", "get"}}

\* C25: in polling mode at most one poll pass is in progress at any time,
\* for any sequence of startWatching and stopWatching calls.
C25_OnePollPass == Cardinality(PassesInProgress) <= 1

\* A task of the watcher (a poll chain or a receive loop) takes a step.
WatcherStep(t) == tasks[t].kind \in {"poll", "sqs"} /\ tasks'[t] # tasks[t]

\* C26: after stopWatching has returned, no call of the watcher that was in
\* flight changes the store or the processed-key set.
C26_NoChangeAfterStop ==
  [][(~ isPolling /\ \E t \in TaskIds : WatcherStep(t))
       => UNCHANGED <<buckets, totalCount, minTimestamp, maxTimestamp, processedKeys>>]_vars

\* C27: from the return of stopWatching to the next startWatching no poll
\* timer is pending.
C27_NoTimerAfterStop ==
  ~ isPolling => \A t \in TaskIds : ~ (tasks[t].kind = "poll" /\ tasks[t].pc = "timer")

\* The receive loops that are running: the pollSqs calls that have not ended.
ReceiveLoops == {t \in TaskIds : tasks[t].kind = "sqs" /\ tasks[t].pc # "done"}

\* C28: at most one receive loop of the ingester is running at any time, for
\* any sequence of startWatching and stopWatching calls.
C28_OneReceiveLoop == Cardinality(ReceiveLoops) <= 1

\* The element is an object with the five fields a TradeEntry needs, each of
\* its type.
PassesValidation(e) ==
  /\ DOMAIN e = {"timestamp", "price", "size", "side", "source"}
  /\ e.timestamp.type = "number"
  /\ e.price.type = "number"
  /\ e.size.type = "number"
  /\ e.side \in {Str("buy"), Str("sell")}
  /\ e.source.type = "string"

\* C29: for a body that parses as JSON the loader returns exactly the
\* elements that pass validation, in the order of the body; an invalid
\* element of any shape is dropped and does not make the load fail; a root
\* that is a single value is handled as an array of that one element.
C29_LoaderKeepsValidInOrder ==
  lastLoad.op = "loadFile"
    => /\ ~ lastLoad.threw
       /\ lastLoad.entries = SelectSeq(lastLoad.data.elements, PassesValidation)

\* C30: a transport failure never ends incremental discovery while the
\* ingester is watching.  In event-driven mode a receive that has answered,
\* failed or not, leaves the loop running, and the sleep behind a failed
\* receive is followed by another receive; in polling mode a pass that has
\* had an answer, a failed listing included, goes on or ends with the next
\* pass scheduled, and the timer that fires starts that pass.
C30_FailureKeepsDiscovery ==
  [][\A t \in TaskIds :
       (WatcherStep(t) /\ isPolling /\ isPolling')
         => /\ (tasks[t].kind = "sqs" /\ tasks[t].pc = "receive")
                 => tasks'[t].pc \in {"receive", "sleep", "get", "delete"}
            /\ (tasks[t].kind = "sqs" /\ tasks[t].pc = "sleep")
                 => tasks'[t].pc = "receive"
            /\ (tasks[t].kind = "poll" /\ tasks[t].pc \in {"list", "get"})
                 => /\ tasks'[t].pc \in {"list", "get", "timer"}
                    /\ tasks'[t].pc = "timer" => pollingTimer' = <<t>>
            /\ (tasks[t].kind = "poll" /\ tasks[t].pc = "timer")
                 => tasks'[t].pc = "list"]_vars

\* The ingester is watching and a receive has failed (the loop is in its
\* sleep), or the first listing of a pass has failed (the pass has ended on
\* its first page and the next is scheduled).
C30_Witness ==
  /\ isPolling
  /\ \E t \in TaskIds :
       \/ tasks[t].kind = "sqs" /\ tasks[t].pc = "sleep"
       \/ tasks[t].kind = "poll" /\ tasks[t].pc = "timer" /\ tasks[t].page = 1

\* The .json keys of the pages of the listing.
JsonKeys ==
  UNION {{listing[p][j] : j \in {i \in 1..Len(listing[p]) : endsWithJson(listing[p][i])}} :
           p \in 1..Len(listing)}

\* The keys a backfill that has returned reports as failed.
ErrorKeys(t) == {tasks[t].result.errors[i] : i \in 1..Len(tasks[t].result.errors)}

\* C31: a backfill that has returned its result has visited every page of the
\* listing, up to the page without a continuation token, and has attempted
\* every .json key of every page: each is among its errors or has had its
\* rows inserted, and its result accounts for as many attempts as there are
\* .json keys.
C31_BackfillVisitsEveryPage ==
  \A t \in TaskIds :
    (tasks[t].kind = "backfill" /\ tasks[t].pc = "done")
      => /\ tasks[t].page = Len(listing)
         /\ \A k \in JsonKeys : k \in ErrorKeys(t) \/ insertCount[k] > 0
         /\ tasks[t].result.filesProcessed + Len(tasks[t].result.errors)
              >= Cardinality(JsonKeys)

\* The entry is in a bucket of the store.
InStore(entry) ==
  \E k \in DOMAIN buckets : \E i \in 1..Len(buckets[k]) : buckets[k][i] = entry

\* The task takes a step of a poll pass from the await of a listing or load.
PassStep(t) ==
  tasks[t].kind = "poll" /\ tasks[t].pc \in {"list", "get"} /\ tasks'[t] # tasks[t]

\* The keys of the page the step of the pass has gone past without loading
\* them: those behind the key it was at, up to the key it loads next or, if
\* it has left the page, up to the end of the page.
PassedOver(t) ==
  LET p == tasks[t].page
      last == IF tasks'[t].pc = "get" /\ tasks'[t].page = p
              THEN tasks'[t].idx - 1 ELSE Len(listing[p])
  IN {listing[p][j] : j \in (tasks[t].idx + 1)..last}

\* A load of the key by a poll pass fails: loadFile throws.
PollLoadFails(t, key) ==
  /\ PassStep(t) /\ tasks[t].pc = "get"
  /\ listing[tasks[t].page][tasks[t].idx] = key
  /\ insertCount'[key] = insertCount[key]

\* C32 (1): the load of a key that fails in a poll pass does not add the key
\* to processedKeys.
C32_FailedLoadNotProcessed ==
  [][\A t \in TaskIds : \A key \in Keys :
       (PollLoadFails(t, key) /\ key \notin processedKeys) => key \notin processedKeys']_vars

\* C32 (2): a pass goes past a .json key it lists without loading it only if
\* the key is in processedKeys, so a key whose load has failed is loaded
\* again in every later pass that lists it.  (A listing whose answer ends
\* the pass may have failed, and then has listed no key.)
C32_RetriedInLaterPasses ==
  [][\A t \in TaskIds :
       (PassStep(t) /\ ~ (tasks[t].pc = "list" /\ tasks'[t].pc = "timer"))
         => \A key \in PassedOver(t) : endsWithJson(key) => key \in processedKeys']_vars

\* Every key for which loadFile has succeeded (its rows were handed to
\* insertBatch) is in processedKeys and has its rows in the store.
LoadedKeysProcessed ==
  \A key \in Keys :
    insertCount[key] > 0
      => /\ key \in processedKeys
         /\ \A i \in 1..Len(loadFile(key)) : InStore(loadFile(key)[i])

\* C32 (3): if the ingester keeps watching, a key whose load has succeeded is
\* in the end in processedKeys with its rows in the store.  (processedKeys
\* and, without clear, the store only grow.)
C32_LoadedInTheEnd == (<>[]isPolling) => []<>LoadedKeysProcessed

\* C32: in polling mode a .json key whose load fails in a pass is not added
\* to processedKeys and is loaded again in every later pass that lists it;
\* if the ingester keeps watching and the load of the key succeeds in the
\* end, the key is in the end in processedKeys and its rows are in the store.
C32_FailedKeyRetriedUntilLoaded ==
  /\ C32_FailedLoadNotProcessed
  /\ C32_RetriedInLaterPasses
  /\ C32_LoadedInTheEnd

\* No call chain of the watcher is at an await or has a timer pending: no
\* list, receive, get or delete call and no insert is still to come.
Quiescent == \A t \in TaskIds : tasks[t].pc = "done"

\* C33: if stopWatching is called and startWatching is not called after it
\* (from some point on isPolling is false), and every pending network call,
\* sleep and timer completes, then from some point on the ingester is
\* quiescent.
C33_QuiescentAfterStop == (<>[](~ isPolling)) => <>[]Quiescent

\* The watcher is stopped and quiescent after a call chain outlived the stop:
\* a poll pass that ended behind the stop, set its timer and returned when
\* the timer fired, or a receive loop that has left its while loop.
C33_Witness ==
  /\ ~ isPolling
  /\ Quiescent
  /\ \E t \in TaskIds :
       \/ tasks[t].kind = "poll" /\ pollingTimer = <<t>>
       \/ tasks[t].kind = "sqs"

\* The step is a call of clear.
ClearStep == lastCall.op # "clear" /\ lastCall'.op = "clear"

\* The step brings a poll pass or the receive loop to a load of the key.
LoadBegins(t, key) ==
  /\ tasks[t].kind \in {"poll", "sqs"}
  /\ tasks'[t] # tasks[t]
  /\ tasks'[t].pc = "get"
  /\ key = IF tasks'[t].kind = "poll" THEN listing[tasks'[t].page][tasks'[t].idx]
           ELSE Head(tasks'[t].msgs).records[tasks'[t].idx]

\* C34: clear changes only the buckets and the aggregates of the store: the
\* listeners of the entry and batch topics and the ingester's processedKeys
\* (and its flags, timer and call chains) are as before, and a poll pass or
\* notification begins a load only of a key that is not in processedKeys, so
\* a key processed before the clear is not loaded by them again.
C34_ClearLeavesListenersAndKeys ==
  [][/\ ClearStep
          => /\ entryListeners' = entryListeners
             /\ batchListeners' = batchListeners
             /\ processedKeys' = processedKeys
             /\ UNCHANGED <<handles, pollingTimer, isPolling, tasks, insertCount>>
     /\ \A t \in TaskIds : \A key \in Keys :
          LoadBegins(t, key) => key \notin processedKeys']_vars

\* clear has just dropped the rows of a key the ingester has processed, on
\* a store with a subscriber.
C34_Witness ==
  /\ lastCall.op = "clear"
  /\ lastCall.event # << >>
  /\ processedKeys # {}
  /\ entryListeners # << >> \/ batchListeners # << >>
====
